---- MODULE Spec2Model ----
(***************************************************************************)
(* Contract-Buddy: the clause prioritisation, matching and recommendation  *)
(* pipeline of server/ai.ts (analyzeContract, findMatchingClauses,         *)
(* generateAnalysis, getIntelligentFallbackWithMatchedClauses).            *)
(***************************************************************************)
EXTENDS Integers, Sequences, FiniteSets, TLC

\* ------------------------------------------------------------------ bounds
\* longest clause list drawn over GeneralTypes
MaxClauses == 6
\* longest clause list drawn over every clause type
MaxMixed == 2
\* longest clause list of the behaviours checked under fairness
MaxFairClauses == 2

\* paragraphs of an uploaded document
MaxParagraphs == 2

\* --------------------------------------------------------------- constants
\* sortedClauses.slice(0, 5)
TOP_N == 5

\* a clause whose type column is NULL
NULL == "<null>"

\* ClauseTypeSchema: the ten taxonomy values
ClauseTypeSchema ==
  { "limitation_of_liability", "termination", "intellectual_property",
    "indemnification", "payment_terms", "confidentiality", "governing_law",
    "warranty", "assignment", "other" }

\* clauses.type is a free nullable text column: a taxonomy value, NULL, or
\* any other string an extractor wrote
ClauseTypes == ClauseTypeSchema \cup { NULL, "force_majeure" }

\* CLAUSE_TYPE_PRIORITY
CLAUSE_TYPE_PRIORITY ==
  [ t \in ClauseTypeSchema |->
      CASE t = "limitation_of_liability" -> 1
        [] t = "indemnification"         -> 2
        [] t = "intellectual_property"   -> 3
        [] t = "termination"             -> 4
        [] t = "payment_terms"           -> 5
        [] t = "confidentiality"         -> 6
        [] t = "warranty"                -> 7
        [] t = "governing_law"           -> 8
        [] t = "assignment"              -> 9
        [] t = "other"                   -> 10 ]

\* CLAUSE_TYPE_PRIORITY[type || 'other'] || 10
priorityOf(type) ==
  LET key == IF type = NULL \/ type = "" THEN "other" ELSE type
  IN  IF key \in DOMAIN CLAUSE_TYPE_PRIORITY THEN CLAUSE_TYPE_PRIORITY[key] ELSE 10

\* the comparator handed to Array.prototype.sort: priorityA - priorityB
compareFn_reversed(a, b) == priorityOf(b.userClause.type) - priorityOf(a.userClause.type)

compareFn(a, b) == priorityOf(a.userClause.type) - priorityOf(b.userClause.type)

\* ------------------------------------------------------------------ inputs
\* one stored clause: id and position follow insertion order
Clause(i, t) ==
  [ id |-> i, type |-> t, content |-> "clause text #" \o ToString(i), position |-> i ]

ClausesOfTypes(ts) == [ i \in 1..Len(ts) |-> Clause(i, ts[i]) ]

\* the gold standards seeded by initializeGoldStandardClauses
SeededGoldStandards ==
  << [ id |-> 1, type |-> "limitation_of_liability",
       content |-> "Neither party shall be liable for any indirect, incidental, special, consequential or punitive damages." ],
     [ id |-> 2, type |-> "termination",
       content |-> "Either party may terminate this Agreement with sixty (60) days written notice." ],
     [ id |-> 3, type |-> "intellectual_property",
       content |-> "Each party retains all rights to its pre-existing intellectual property. Any jointly developed IP shall be jointly owned." ],
     [ id |-> 4, type |-> "indemnification",
       content |-> "Each party shall indemnify the other for claims arising from its own negligence or willful misconduct." ],
     [ id |-> 5, type |-> "payment_terms",
       content |-> "Payment shall be due within thirty (30) days of invoice date." ] >>

\* a reference set extended through createGoldStandardClause: a second
\* limitation_of_liability reference and one of type other
ExtendedGoldStandards ==
  SeededGoldStandards \o
  << [ id |-> 6, type |-> "limitation_of_liability",
       content |-> "Liability of either party is capped at the fees paid in the preceding twelve months." ],
     [ id |-> 7, type |-> "other",
       content |-> "The parties shall act reasonably and in good faith." ] >>

GoldStandardChoices == { <<>>, SeededGoldStandards, ExtendedGoldStandards }

\* the types the exhaustive clause lists are drawn over
GeneralTypes == { "limitation_of_liability", "other", NULL }

RECURSIVE SeqsUpTo(_, _)
SeqsUpTo(S, n) ==
  IF n = 0 THEN { <<>> }
  ELSE LET shorter == SeqsUpTo(S, n - 1)
       IN  shorter \cup { Append(s, x) : s \in { q \in shorter : Len(q) = n - 1 }, x \in S }

\* the keys of CLAUSE_TYPE_PRIORITY in the order the source lists them
TableOrder ==
  << "limitation_of_liability", "indemnification", "intellectual_property",
     "termination", "payment_terms", "confidentiality", "warranty",
     "governing_law", "assignment", "other" >>

\* TableOrder with the span i..j reversed
ReverseSpan(s, i, j) ==
  [ k \in 1..Len(s) |-> IF k >= i /\ k <= j THEN s[i + j - k] ELSE s[k] ]

\* TableOrder rotated left by r
Rotate(s, r) == [ k \in 1..Len(s) |-> s[((k - 1 + r) % Len(s)) + 1] ]

\* documents holding one clause of each taxonomy type, in shuffled order
OneOfEachInputs ==
  { ReverseSpan(TableOrder, i, j) : i \in 1..10, j \in 1..10 } \cup
  { Rotate(TableOrder, r) : r \in 0..9 }

\* orderings of 2 limitation_of_liability, 1 termination, 1 indemnification
\* and 3 other clauses
SevenClauseInputs ==
  { s \in [ 1..7 -> { "limitation_of_liability", "termination", "indemnification", "other" } ] :
      /\ Cardinality({ i \in 1..7 : s[i] = "limitation_of_liability" }) = 2
      /\ Cardinality({ i \in 1..7 : s[i] = "termination" }) = 1
      /\ Cardinality({ i \in 1..7 : s[i] = "indemnification" }) = 1 }

ClauseTypeLists ==
  SeqsUpTo(GeneralTypes, MaxClauses) \cup SeqsUpTo(ClauseTypes, MaxMixed)
    \cup OneOfEachInputs \cup SevenClauseInputs

\* ------------------------------------------------------- findMatchingClauses
RECURSIVE filterByType(_, _)
\* goldStandardClauses.filter(gold => gold.type === type)
filterByType(golds, type) ==
  IF golds = <<>> THEN <<>>
  ELSE IF Head(golds).type = type
       THEN <<Head(golds)>> \o filterByType(Tail(golds), type)
       ELSE filterByType(Tail(golds), type)

\* a matcher that takes the last reference of the clause's type
matchOne_lastMatch(userClause, golds) ==
  LET matchingGoldStandards == filterByType(golds, userClause.type)
      others == filterByType(golds, "other")
  IN  IF Len(matchingGoldStandards) > 0
      THEN << [ userClause |-> userClause,
                goldStandard |-> matchingGoldStandards[Len(matchingGoldStandards)],
                similarity |-> 8 ] >>
      ELSE IF Len(others) > 0
           THEN << [ userClause |-> userClause, goldStandard |-> others[1], similarity |-> 5 ] >>
           ELSE IF Len(golds) > 0
                THEN << [ userClause |-> userClause, goldStandard |-> golds[1], similarity |-> 5 ] >>
                ELSE <<>>

\* a matcher that drops a clause with no reference of its own type
matchOne_dropUnmatched(userClause, golds) ==
  LET matchingGoldStandards == filterByType(golds, userClause.type)
  IN  IF Len(matchingGoldStandards) > 0
      THEN << [ userClause |-> userClause, goldStandard |-> matchingGoldStandards[1], similarity |-> 8 ] >>
      ELSE <<>>

\* a matcher that carries a clause forward with an empty reference
matchOne_nullReference(userClause, golds) ==
  LET matchingGoldStandards == filterByType(golds, userClause.type)
      others == filterByType(golds, "other")
  IN  IF Len(matchingGoldStandards) > 0
      THEN << [ userClause |-> userClause, goldStandard |-> matchingGoldStandards[1], similarity |-> 8 ] >>
      ELSE IF Len(others) > 0
           THEN << [ userClause |-> userClause, goldStandard |-> others[1], similarity |-> 5 ] >>
           ELSE IF Len(golds) > 0
                THEN << [ userClause |-> userClause, goldStandard |-> golds[1], similarity |-> 5 ] >>
                ELSE << [ userClause |-> userClause,
                          goldStandard |-> [ id |-> 0, type |-> NULL, content |-> "" ],
                          similarity |-> 0 ] >>

\* the match loop body: the pair pushed for one clause, or nothing
\* (similarity in tenths: 8 is 0.8, 5 is 0.5)
matchOne(userClause, golds) ==
  LET matchingGoldStandards == filterByType(golds, userClause.type)
      others == filterByType(golds, "other")
  IN  IF Len(matchingGoldStandards) > 0
      THEN << [ userClause |-> userClause, goldStandard |-> matchingGoldStandards[1], similarity |-> 8 ] >>
      ELSE IF Len(others) > 0
           THEN << [ userClause |-> userClause, goldStandard |-> others[1], similarity |-> 5 ] >>
           ELSE IF Len(golds) > 0
                THEN << [ userClause |-> userClause, goldStandard |-> golds[1], similarity |-> 5 ] >>
                ELSE <<>>

RECURSIVE matchAll(_, _)
\* for (let i = 0; i < clauses.length; i++) { ... allMatchedClauses.push(...) }
matchAll(cls, golds) ==
  IF cls = <<>> THEN <<>>
  ELSE matchOne(Head(cls), golds) \o matchAll(Tail(cls), golds)

\* an insertion that puts m before entries that compare equal to it
sortInsert_unstable(sorted, m) ==
  LET before == { k \in 1..Len(sorted) : compareFn(sorted[k], m) < 0 }
      n == IF before = {} THEN 0 ELSE CHOOSE k \in before : \A j \in before : j <= k
  IN  SubSeq(sorted, 1, n) \o <<m>> \o SubSeq(sorted, n + 1, Len(sorted))

\* one step of the stable Array.prototype.sort: m goes after every entry that
\* does not compare greater than it
sortInsert(sorted, m) ==
  LET before == { k \in 1..Len(sorted) : compareFn(sorted[k], m) <= 0 }
      n == IF before = {} THEN 0 ELSE CHOOSE k \in before : \A j \in before : j <= k
  IN  SubSeq(sorted, 1, n) \o <<m>> \o SubSeq(sorted, n + 1, Len(sorted))

RECURSIVE sortFrom(_, _)
sortFrom(sorted, rest) ==
  IF rest = <<>> THEN sorted
  ELSE sortFrom(sortInsert(sorted, Head(rest)), Tail(rest))

\* allMatchedClauses.sort((a, b) => priorityA - priorityB)
sortByPriority(pairs) == sortFrom(<<>>, pairs)

\* a slice that keeps everything
slice_all(s, n) == s

\* s.slice(0, n)
slice(s, n) == SubSeq(s, 1, IF Len(s) < n THEN Len(s) ELSE n)

\* the cap applied before the sort
findMatchingClauses_capFirst(cls, golds) ==
  sortByPriority(slice(matchAll(cls, golds), TOP_N))

findMatchingClauses(cls, golds) ==
  slice(sortByPriority(matchAll(cls, golds)), TOP_N)

\* -------------------------------------------------------- string operations
UpperCaseLetters == "ABCDEFGHIJKLMNOPQRSTUVWXYZ"

LowerCaseLetters == "abcdefghijklmnopqrstuvwxyz"

\* the characters the regular expression class \w matches
WordCharacters == UpperCaseLetters \o LowerCaseLetters \o "0123456789_"

charAt(s, i) == SubSeq(s, i, i)

\* the position of character c in s, 0 when it does not occur
positionIn(s, c) ==
  IF \E i \in 1..Len(s) : charAt(s, i) = c
  THEN CHOOSE i \in 1..Len(s) : charAt(s, i) = c /\ \A j \in 1..(i - 1) : charAt(s, j) # c
  ELSE 0

lowerChar(c) ==
  LET i == positionIn(UpperCaseLetters, c)
  IN  IF i = 0 THEN c ELSE charAt(LowerCaseLetters, i)

upperChar(c) ==
  LET i == positionIn(LowerCaseLetters, c)
  IN  IF i = 0 THEN c ELSE charAt(UpperCaseLetters, i)

\* String.prototype.toLowerCase
RECURSIVE toLowerCase(_)
toLowerCase(s) ==
  IF Len(s) = 0 THEN ""
  ELSE lowerChar(charAt(s, 1)) \o toLowerCase(SubSeq(s, 2, Len(s)))

\* String.prototype.includes: k occurs in s as a substring
includes(s, k) ==
  \E i \in 1..(Len(s) - Len(k) + 1) : SubSeq(s, i, i + Len(k) - 1) = k

RECURSIVE trimStart(_)
trimStart(s) ==
  IF Len(s) > 0 /\ charAt(s, 1) = " " THEN trimStart(SubSeq(s, 2, Len(s))) ELSE s

RECURSIVE trimEnd(_)
trimEnd(s) ==
  IF Len(s) > 0 /\ charAt(s, Len(s)) = " " THEN trimEnd(SubSeq(s, 1, Len(s) - 1)) ELSE s

\* String.prototype.trim (the texts hold no white space other than spaces)
trim(s) == trimEnd(trimStart(s))

\* replace(/_/g, ' ')
RECURSIVE replaceUnderscores(_)
replaceUnderscores(s) ==
  IF Len(s) = 0 THEN ""
  ELSE (IF charAt(s, 1) = "_" THEN " " ELSE charAt(s, 1))
       \o replaceUnderscores(SubSeq(s, 2, Len(s)))

isWordChar(c) == positionIn(WordCharacters, c) # 0

\* replace(/\b\w/g, l => l.toUpperCase()), from position i on
RECURSIVE capitalizeWords(_, _)
capitalizeWords(s, i) ==
  IF i > Len(s) THEN ""
  ELSE (IF isWordChar(charAt(s, i)) /\ (i = 1 \/ ~isWordChar(charAt(s, i - 1)))
        THEN upperChar(charAt(s, i))
        ELSE charAt(s, i))
       \o capitalizeWords(s, i + 1)

\* ------------------------------------------------- the deterministic fallback
\* createCustomSuggestion: prefix + goldStandard
createCustomSuggestion(clauseType, actualClause, goldStandard) ==
  "[Suggested Revision]: " \o goldStandard

\* the titles of the types a stored clause usually has, computed once
clauseTitles ==
  [ t \in (ClauseTypes \cup { "unknown" }) \ { NULL } |->
      capitalizeWords(replaceUnderscores(t), 1) ]

\* type?.replace(/_/g, ' ').replace(/\b\w/g, l => l.toUpperCase()) || 'Contract Provision'
clauseTitle(type) ==
  IF type = NULL \/ type = ""
  THEN "Contract Provision"
  ELSE IF type \in DOMAIN clauseTitles
       THEN clauseTitles[type]
       ELSE capitalizeWords(replaceUnderscores(type), 1)

\* the title / explanation / riskLevel chosen by the if-else chain on type
fallbackTemplate(type) ==
  CASE type = "limitation_of_liability" ->
         [ title |-> "Limitation of Liability",
           explanation |-> "This clause restricts how much the supplier must pay if something goes wrong. The current version may cap liability too low to adequately protect you in case of major issues, and may not exclude gross negligence or data breaches.",
           riskLevel |-> "high" ]
    [] type = "termination" ->
         [ title |-> "Termination Clause",
           explanation |-> "This clause controls how and when either party can end the agreement. Unbalanced termination rights can leave you vulnerable to sudden service disruption or unfavorable long-term commitments.",
           riskLevel |-> "medium" ]
    [] type = "intellectual_property" ->
         [ title |-> "Intellectual Property Rights",
           explanation |-> "This clause determines who owns the work created under this agreement. If not properly negotiated, you could pay for custom work but not actually own it, limiting your ability to use, modify, or transfer it freely.",
           riskLevel |-> "high" ]
    [] type = "indemnification" ->
         [ title |-> "Indemnification",
           explanation |-> "This clause determines who pays legal costs and damages if someone sues over the work performed. One-sided indemnification could leave you financially responsible for the supplier's mistakes or intellectual property violations.",
           riskLevel |-> "medium" ]
    [] type = "payment_terms" ->
         [ title |-> "Payment Terms",
           explanation |-> "This clause establishes when and how you must pay. Unfavorable payment terms could require upfront payment before delivery, impose excessive late fees, or prevent you from disputing incorrect charges.",
           riskLevel |-> "low" ]
    [] type = "confidentiality" ->
         [ title |-> "Confidentiality",
           explanation |-> "This clause protects sensitive information shared during the business relationship. One-sided or overly broad confidentiality obligations could restrict your ability to discuss your own business or use general knowledge gained during the relationship.",
           riskLevel |-> "medium" ]
    [] type = "warranty" ->
         [ title |-> "Warranty",
           explanation |-> "This clause establishes what the supplier promises about their work quality and what remedies you have if the work is defective. Weak warranties or disclaimer clauses can leave you with no recourse if deliverables don't meet your needs.",
           riskLevel |-> "medium" ]
    [] type = "governing_law" ->
         [ title |-> "Governing Law and Jurisdiction",
           explanation |-> "This clause determines which state's laws apply and where lawsuits must be filed. Unfavorable jurisdiction could force you to litigate in a distant, expensive forum or under laws that don't protect your interests as well.",
           riskLevel |-> "low" ]
    [] OTHER ->
         [ title |-> clauseTitle(type),
           explanation |-> "This provision should be carefully reviewed to ensure it adequately protects your interests and maintains fair balance between both parties. Consider whether the terms are reasonable, achievable, and aligned with your business objectives.",
           riskLevel |-> "medium" ]

\* a fallback that has no analysis for a type outside the if-else chain
fallbackPoint_skipUnknown(match) ==
  IF match.userClause.type \in
       { "limitation_of_liability", "termination", "intellectual_property", "indemnification",
         "payment_terms", "confidentiality", "warranty", "governing_law" }
  THEN << [ title |-> fallbackTemplate(match.userClause.type).title,
            originalClause |-> match.userClause.content,
            explanation |-> fallbackTemplate(match.userClause.type).explanation,
            suggestion |-> createCustomSuggestion(match.userClause.type, match.userClause.content,
                                                  match.goldStandard.content),
            riskLevel |-> fallbackTemplate(match.userClause.type).riskLevel ] >>
  ELSE <<>>

\* the loop body of getIntelligentFallbackWithMatchedClauses: the analysis
\* pushed for one matched clause
fallbackPoint(match) ==
  LET type == match.userClause.type
      actualClauseText == match.userClause.content
      goldStandardText == match.goldStandard.content
      customSuggestion == createCustomSuggestion(type, actualClauseText, goldStandardText)
      template == fallbackTemplate(type)
  IN  << [ title |-> template.title,
           originalClause |-> actualClauseText,
           explanation |-> template.explanation,
           suggestion |-> customSuggestion,
           riskLevel |-> template.riskLevel ] >>

\* the last-resort entry pushed when the loop produced nothing
genericPoint(match) ==
  [ title |-> "Contract Provision",
    originalClause |-> match.userClause.content,
    explanation |-> "This provision should be reviewed by legal counsel to ensure it adequately protects your interests.",
    suggestion |-> "REVISED PROVISION: This clause should be rewritten to ensure balanced obligations, clear performance standards, and appropriate protections for both parties. Please consult with legal counsel for specific recommendations based on your business needs.",
    riskLevel |-> "medium" ]

RECURSIVE fallbackLoop(_)
fallbackLoop(matched) ==
  IF matched = <<>> THEN <<>>
  ELSE fallbackPoint(Head(matched)) \o fallbackLoop(Tail(matched))

getIntelligentFallbackWithMatchedClauses(matched) ==
  LET analysisResults == fallbackLoop(matched)
  IN  IF Len(analysisResults) = 0 /\ Len(matched) > 0
      THEN [ i \in 1..Len(matched) |-> genericPoint(matched[i]) ]
      ELSE analysisResults

\* ---------------------------------------------------------- clause extraction
\* the texts an uploaded document is made of; a document is the sequence of
\* pieces that text.split(/\n\s*\n/) yields
ParagraphTexts ==
  { "Licensee shall not use any Trademark of Licensor without prior written consent.",
    "Either party considers terminating this Agreement upon thirty days written notice.",
    "Each party shall indemnify the other against any liability arising from a breach.",
    "This Agreement is subject to the jurisdiction of the courts of Delaware, court fees included.",
    "Customer shall pay each INVOICE within thirty days of receipt without any deduction.",
    "  The parties shall meet quarterly to review progress under this Agreement as needed.  ",
    "Definitions",
    "   " }

Documents == SeqsUpTo(ParagraphTexts, MaxParagraphs) \ { <<>> }

\* a loop that pushes every paragraph as a clause of its own
combineParagraphs_noMerge(ps, currentClause, acc) ==
  [ i \in 1..Len(ps) |-> [ content |-> ps[i] ] ]

\* the loop without the push of the remaining content after it
RECURSIVE combineParagraphs_dropsRemainder(_, _, _)
combineParagraphs_dropsRemainder(ps, currentClause, acc) ==
  IF ps = <<>>
  THEN acc
  ELSE LET paragraph == Head(ps)
       IN  IF Len(paragraph) < 50
           THEN combineParagraphs_dropsRemainder(Tail(ps),
                  IF currentClause = "" THEN paragraph
                  ELSE currentClause \o "\n\n" \o paragraph, acc)
           ELSE combineParagraphs_dropsRemainder(Tail(ps), "",
                  Append(acc, [ content |-> IF currentClause # ""
                                            THEN currentClause \o "\n\n" \o paragraph
                                            ELSE paragraph ]))

\* the loop of splitIntoDefaultClauses over the trimmed non-empty paragraphs
RECURSIVE combineParagraphs(_, _, _)
combineParagraphs(ps, currentClause, acc) ==
  IF ps = <<>>
  THEN IF currentClause # "" THEN Append(acc, [ content |-> currentClause ]) ELSE acc
  ELSE LET paragraph == Head(ps)
       IN  IF Len(paragraph) < 50 /\ currentClause = ""
           THEN combineParagraphs(Tail(ps), paragraph, acc)
           ELSE IF Len(paragraph) < 50
                THEN combineParagraphs(Tail(ps), currentClause \o "\n\n" \o paragraph, acc)
                ELSE IF currentClause # ""
                     THEN combineParagraphs(Tail(ps), "",
                            Append(acc, [ content |-> currentClause \o "\n\n" \o paragraph ]))
                     ELSE combineParagraphs(Tail(ps), "", Append(acc, [ content |-> paragraph ]))

nonBlank(p) == Len(trim(p)) > 0

splitIntoDefaultClauses(text) ==
  LET kept == SelectSeq(text, nonBlank)
      paragraphs == [ i \in 1..Len(kept) |-> trim(kept[i]) ]
  IN  combineParagraphs(paragraphs, "", <<>>)

\* the keyword chain in the map callback of getIntelligentDefaultClauses
keywordType(clauseContent) ==
  LET content == toLowerCase(clauseContent)
      type ==
        IF includes(content, "liability") \/ includes(content, "damages") \/ includes(content, "limit")
        THEN "limitation_of_liability"
        ELSE IF includes(content, "termination") \/ includes(content, "terminate")
        THEN "termination"
        ELSE IF includes(content, "intellectual property") \/ includes(content, "copyright")
                \/ includes(content, "patent")
        THEN "intellectual_property"
        ELSE IF includes(content, "indemnif")
        THEN "indemnification"
        ELSE IF includes(content, "payment") \/ includes(content, "invoice") \/ includes(content, "fee")
        THEN "payment_terms"
        ELSE IF includes(content, "confidential")
        THEN "confidentiality"
        ELSE IF includes(content, "governing law") \/ includes(content, "jurisdiction")
        THEN "governing_law"
        ELSE IF includes(content, "warrant")
        THEN "warranty"
        ELSE IF includes(content, "assignment") \/ includes(content, "assign")
        THEN "assignment"
        ELSE NULL
  IN  IF type = NULL THEN "other" ELSE type

getIntelligentDefaultClauses(text) ==
  LET split == splitIntoDefaultClauses(text)
  IN  [ i \in 1..Len(split) |->
          [ content |-> split[i].content, type |-> keywordType(split[i].content) ] ]

\* the types the extraction model may put on a clause: none, one of the
\* categories it was given, or a label of its own
ExtractorTypes == { NULL, "governing_law", "force_majeure" }

\* the ways the chat.completions.create call of extractClauses can settle
ExtractionResponses(text) ==
  { [ kind |-> k, clauses |-> <<>> ] : k \in { "rejected", "unparsable", "json_without_clauses" } }
  \cup { [ kind |-> "json_clauses", clauses |-> <<>> ] }
  \cup { [ kind |-> "json_clauses",
           clauses |-> [ i \in 1..Len(text) |-> [ content |-> trim(text[i]), type |-> ts[i] ] ] ] :
         ts \in [ 1..Len(text) -> ExtractorTypes ] }

NoExtraction == [ kind |-> "none", clauses |-> <<>> ]

\* extractClauses after the await: JSON.parse, the result.clauses test and
\* the inner catch block
afterExtraction(r, text) ==
  IF r.kind = "json_clauses"
  THEN r.clauses
  ELSE getIntelligentDefaultClauses(text)

\* the createClause loop of the upload route
storedClauses(extractedClauses) ==
  [ i \in 1..Len(extractedClauses) |->
      [ id |-> i,
        type |-> IF extractedClauses[i].type = NULL \/ extractedClauses[i].type = ""
                 THEN "unknown"
                 ELSE extractedClauses[i].type,
        content |-> extractedClauses[i].content,
        riskLevel |-> "pending",
        position |-> i - 1 ] ]

\* ------------------------------------------------------------- Document AI
identifyClauseType(content, hint) ==
  LET lowerContent == toLowerCase(content)
      lowerHint == IF hint = NULL THEN "" ELSE toLowerCase(hint)
  IN  IF includes(lowerHint, "liability") \/ includes(lowerHint, "limitation")
      THEN "limitation_of_liability"
      ELSE IF includes(lowerHint, "indemnif")
      THEN "indemnification"
      ELSE IF includes(lowerHint, "intellectual") \/ includes(lowerHint, "ip")
      THEN "intellectual_property"
      ELSE IF includes(lowerHint, "terminat")
      THEN "termination"
      ELSE IF includes(lowerHint, "payment") \/ includes(lowerHint, "fee")
      THEN "payment_terms"
      ELSE IF includes(lowerHint, "confidential")
      THEN "confidentiality"
      ELSE IF includes(lowerHint, "warrant")
      THEN "warranty"
      ELSE IF includes(lowerContent, "limitation of liability")
              \/ (includes(lowerContent, "liable") /\ includes(lowerContent, "not exceed"))
      THEN "limitation_of_liability"
      ELSE IF includes(lowerContent, "indemnif") \/ includes(lowerContent, "hold harmless")
      THEN "indemnification"
      ELSE IF includes(lowerContent, "intellectual property") \/ includes(lowerContent, "copyright")
              \/ includes(lowerContent, "patent") \/ includes(lowerContent, "trademark")
      THEN "intellectual_property"
      ELSE IF includes(lowerContent, "terminat") \/ includes(lowerContent, "cancel")
      THEN "termination"
      ELSE IF includes(lowerContent, "payment") \/ includes(lowerContent, "fee")
              \/ includes(lowerContent, "invoice") \/ includes(lowerContent, "price")
      THEN "payment_terms"
      ELSE IF includes(lowerContent, "confidential") \/ includes(lowerContent, "proprietary")
      THEN "confidentiality"
      ELSE IF includes(lowerContent, "warrant") /\ ~includes(lowerContent, "without warrant")
      THEN "warranty"
      ELSE IF includes(lowerContent, "governing law") \/ includes(lowerContent, "jurisdiction")
      THEN "governing_law"
      ELSE IF includes(lowerContent, "assign")
      THEN "assignment"
      ELSE "other"

assessRiskLevel(type) ==
  IF type = NULL \/ type = "" THEN "low"
  ELSE IF type \in { "limitation_of_liability", "indemnification", "intellectual_property" }
  THEN "high"
  ELSE IF type \in { "termination", "payment_terms", "confidentiality" }
  THEN "medium"
  ELSE "low"

\* extractClausesFromText: the sections longer than 50 characters, each
\* typed from its content alone
extractClausesFromText(text) ==
  LET long == SelectSeq([ i \in 1..Len(text) |-> i ], LAMBDA i : Len(trim(text[i])) > 50)
  IN  [ k \in 1..Len(long) |->
          [ content |-> trim(text[long[k]]),
            type |-> identifyClauseType(trim(text[long[k]]), NULL),
            position |-> long[k] - 1,
            risk_level |-> assessRiskLevel(identifyClauseType(trim(text[long[k]]), NULL)) ] ]

\* parseDocumentAIPrediction for a prediction with a clauses array and the
\* full text under prediction.text
parseDocumentAIPrediction(p) ==
  LET structured ==
        [ i \in 1..Len(p.clauses) |->
            [ content |-> p.clauses[i].text,
              type |-> identifyClauseType(p.clauses[i].text, p.clauses[i].type),
              position |-> i - 1,
              risk_level |-> assessRiskLevel(p.clauses[i].type) ] ]
  IN  IF Len(structured) = 0 /\ p.text # <<>>
      THEN extractClausesFromText(p.text)
      ELSE structured

\* the types the document-understanding service may put on a clause
UpstreamTypes == { NULL, "governing_law", "termination" }

\* the predictions the service may return for a document
Predictions(text) ==
  { [ clauses |-> <<>>, text |-> text ] }
  \cup { [ clauses |-> [ i \in 1..Len(text) |-> [ text |-> text[i], type |-> hs[i] ] ],
           text |-> text ] :
         hs \in [ 1..Len(text) -> UpstreamTypes ] }

NoPrediction == [ clauses |-> <<>>, text |-> <<>> ]

\* ------------------------------------------------------------------- state
VARIABLES
  clauses,              \* analyzeContract's clauses argument
  goldStandardClauses,  \* analyzeContract's goldStandardClauses argument
  apiKey,               \* a usable AIML_API_KEY / OPENAI_API_KEY is configured
  pc,                   \* where the analyzeContract call stands
  allMatchedClauses,    \* findMatchingClauses: the pairs before the sort
  sortedClauses,        \* findMatchingClauses: the pairs after the sort
  matchedClauses,       \* what findMatchingClauses returned
  response,             \* how the chat.completions.create promise settled
  negotiationPoints,    \* what analyzeContract returned
  paragraphs,           \* the text of the uploaded document, split at blank lines
  upc,                  \* where the upload of the document stands
  extraction,           \* how the chat.completions.create call of extractClauses settled
  extracted,            \* what extractClauses returned
  prediction,           \* the Document AI prediction that was parsed
  aiClauses,            \* what parseDocumentAIPrediction returned
  firstRun,             \* an earlier analyzeContract call on the same arguments
  second,               \* a concurrent analyzeContract call for another document
  staging,              \* an analyzeDocumentWithAI call and its file in CONTRACT_UPLOADS
  db,                   \* the storage tables and the server's clock
  http,                 \* the last request a route answered, and its answer
  client                \* the upload page: startAnalysis and its interval timers

uploadVars == << paragraphs, upc, extraction, extracted, prediction, aiClauses >>

\* what lies outside one upload and one analyzeContract call
storageVars == << db, http, client >>

otherVars == << firstRun, second, staging, storageVars >>

vars == << clauses, goldStandardClauses, apiKey, pc, allMatchedClauses,
           sortedClauses, matchedClauses, response, negotiationPoints, uploadVars,
           otherVars >>

NoRun == [ ran |-> FALSE, response |-> [ kind |-> "none", points |-> <<>> ], points |-> <<>> ]

\* nothing but the upload and the analysis is going on
\* no second call: its arguments and local variables
NoInvocation ==
  [ pc |-> "none", clauses |-> <<>>, matchedClauses |-> <<>>,
    response |-> [ kind |-> "none", points |-> <<>> ], negotiationPoints |-> <<>> ]

\* no analyzeDocumentWithAI call: where it stands, whether doc_<id><ext> is
\* in the stage, what made it throw, and how the REMOVE went
NoStaging == [ pc |-> "none", staged |-> FALSE, failure |-> "none", removal |-> "none" ]

\* empty tables at hour 0; ids come from sequences starting at 1
EmptyDatabase ==
  [ now |-> 0, documents |-> {}, clauses |-> {}, analysisResults |-> <<>>,
    nextDocumentId |-> 1, cleanups |-> 0 ]

\* no request yet; found tells whether the lookup of a request found its row
NoRequest ==
  [ route |-> "none", documentId |-> 0, found |-> FALSE, status |-> 0, body |-> "none" ]

\* the upload page before startAnalysis: no interval is running
NoClient ==
  [ pc |-> "none", statusInterval |-> FALSE, progressInterval |-> FALSE,
    isAnalyzing |-> FALSE, analysisProgress |-> 0, messageIndex |-> 0,
    analysisStatus |-> "Extracting text from document..." ]

StorageIdle ==
  /\ db = EmptyDatabase
  /\ http = NoRequest
  /\ client = NoClient

OtherIdle ==
  /\ firstRun = NoRun
  /\ second = NoInvocation
  /\ staging = NoStaging
  /\ StorageIdle

NoResponse == [ kind |-> "none", points |-> <<>> ]

Init ==
  /\ clauses \in { ClausesOfTypes(ts) : ts \in ClauseTypeLists }
  /\ goldStandardClauses \in GoldStandardChoices
  /\ apiKey \in BOOLEAN
  /\ pc = "idle"
  /\ allMatchedClauses = <<>>
  /\ sortedClauses = <<>>
  /\ matchedClauses = <<>>
  /\ response = NoResponse
  /\ negotiationPoints = <<>>
  /\ paragraphs = <<>>
  /\ upc = "stored"
  /\ extraction = NoExtraction
  /\ extracted = <<>>
  /\ prediction = NoPrediction
  /\ aiClauses = <<>>
  /\ OtherIdle

\* ------------------------------------------------------ the external generator
\* the entry a well-behaved generator writes for one matched clause
generatedPoint(match) ==
  [ title |-> "Generated title",
    originalClause |-> match.userClause.content,
    explanation |-> "Generated plain-English explanation.",
    suggestion |-> "GENERATED REWRITTEN CLAUSE.",
    riskLevel |-> "high" ]

generatedPoints(matched) == [ i \in 1..Len(matched) |-> generatedPoint(matched[i]) ]

Reverse(s) == [ i \in 1..Len(s) |-> s[Len(s) + 1 - i] ]

\* the arrays a generator may put under "negotiationPoints" when asked about
\* matched: the requested one, and ones with too few, too many, reordered or
\* incomplete entries, or with the prompt's placeholder for the original text
PointArrays(matched) ==
  LET good == generatedPoints(matched)
      n == Len(good)
  IN  IF n = 0 THEN { <<>> } ELSE
      { good,
        <<>>,
        SubSeq(good, 1, n - 1),
        good \o << good[1] >>,
        Reverse(good),
        [ good EXCEPT ![n] = [ @ EXCEPT !.suggestion = "" ] ],
        [ good EXCEPT ![1] = [ @ EXCEPT !.originalClause = "Original text" ] ] }

\* the ways the awaited chat.completions.create call can settle
Responses(matched) ==
  { [ kind |-> k, points |-> <<>> ] :
      k \in { "rejected", "empty_content", "unparsable", "json_without_points" } }
  \cup { [ kind |-> "json_points", points |-> p ] : p \in PointArrays(matched) }

\* generateAnalysis after the await: the content check, JSON.parse,
\* result.negotiationPoints || fallback, and the catch blocks
afterResponse(r, matched) ==
  IF r.kind = "json_points"
  THEN r.points
  ELSE getIntelligentFallbackWithMatchedClauses(matched)

\* ----------------------------------------------------------------- actions
\* an analyzeContract that reverses the caller's clauses array in place
analyzeContract_reversesInput ==
  /\ pc = "idle"
  /\ allMatchedClauses' = matchAll(clauses, goldStandardClauses)
  /\ sortedClauses' = sortByPriority(allMatchedClauses')
  /\ matchedClauses' = findMatchingClauses(clauses, goldStandardClauses)
  /\ clauses' = Reverse(clauses)
  /\ IF Len(matchedClauses') = 0
     THEN negotiationPoints' = <<>> /\ pc' = "done"
     ELSE IF ~apiKey
          THEN /\ negotiationPoints' = getIntelligentFallbackWithMatchedClauses(matchedClauses')
               /\ pc' = "done"
          ELSE negotiationPoints' = negotiationPoints /\ pc' = "awaiting"
  /\ UNCHANGED << goldStandardClauses, apiKey, response, uploadVars, otherVars >>

\* an analyzeContract whose generateAnalysis lacks the early return for an
\* empty list of matched clauses
analyzeContract_noEmptyReturn ==
  /\ pc = "idle"
  /\ allMatchedClauses' = matchAll(clauses, goldStandardClauses)
  /\ sortedClauses' = sortByPriority(allMatchedClauses')
  /\ matchedClauses' = findMatchingClauses(clauses, goldStandardClauses)
  /\ IF ~apiKey
     THEN /\ negotiationPoints' = getIntelligentFallbackWithMatchedClauses(matchedClauses')
          /\ pc' = "done"
     ELSE negotiationPoints' = negotiationPoints /\ pc' = "awaiting"
  /\ UNCHANGED << clauses, goldStandardClauses, apiKey, response, uploadVars, otherVars >>

\* analyzeContract up to the await inside generateAnalysis (the mock
\* embeddings are computed and never read by findMatchingClauses)
analyzeContract ==
  /\ pc = "idle"
  /\ allMatchedClauses' = matchAll(clauses, goldStandardClauses)
  /\ sortedClauses' = sortByPriority(allMatchedClauses')
  /\ matchedClauses' = findMatchingClauses(clauses, goldStandardClauses)
  /\ IF Len(matchedClauses') = 0
     THEN negotiationPoints' = <<>> /\ pc' = "done"
     ELSE IF ~apiKey
          THEN /\ negotiationPoints' = getIntelligentFallbackWithMatchedClauses(matchedClauses')
               /\ pc' = "done"
          ELSE negotiationPoints' = negotiationPoints /\ pc' = "awaiting"
  /\ UNCHANGED << clauses, goldStandardClauses, apiKey, response, uploadVars, otherVars >>

\* the generator service answers, fails or times out in the client library
generatorSettles ==
  /\ pc = "awaiting"
  /\ \E r \in Responses(matchedClauses) : response' = r
  /\ pc' = "settled"
  /\ UNCHANGED << clauses, goldStandardClauses, apiKey, allMatchedClauses,
                  sortedClauses, matchedClauses, negotiationPoints, uploadVars, otherVars >>

\* generateAnalysis resumes after the await and analyzeContract returns
resumeAnalysis ==
  /\ pc = "settled"
  /\ negotiationPoints' = afterResponse(response, matchedClauses)
  /\ pc' = "done"
  /\ UNCHANGED << clauses, goldStandardClauses, apiKey, allMatchedClauses,
                  sortedClauses, matchedClauses, response, uploadVars, otherVars >>

Next == analyzeContract \/ generatorSettles \/ resumeAnalysis

Spec == Init /\ [][Next]_vars

\* the documents the fair behaviours start from
FairInit ==
  /\ Init
  /\ Len(clauses) <= MaxFairClauses

\* the event loop runs the code's own steps; nothing in the code makes the
\* pending generator call settle
FairSpec ==
  FairInit /\ [][Next]_vars /\ WF_vars(analyzeContract) /\ WF_vars(resumeAnalysis)

\* ------------------------------------------------------------ the upload
analysisVars == << allMatchedClauses, sortedClauses, matchedClauses, response, negotiationPoints >>

\* a document is uploaded: nothing is extracted, stored or analysed yet
UploadInit ==
  /\ paragraphs \in Documents
  /\ goldStandardClauses = SeededGoldStandards
  /\ apiKey \in BOOLEAN
  /\ upc = "idle"
  /\ extraction = NoExtraction
  /\ extracted = <<>>
  /\ prediction = NoPrediction
  /\ aiClauses = <<>>
  /\ clauses = <<>>
  /\ pc = "not_requested"
  /\ allMatchedClauses = <<>>
  /\ sortedClauses = <<>>
  /\ matchedClauses = <<>>
  /\ response = NoResponse
  /\ negotiationPoints = <<>>
  /\ OtherIdle

\* extractClauses up to its await: without a usable key the keyword
\* classifier types the paragraphs
extractClauses ==
  /\ upc = "idle"
  /\ IF ~apiKey
     THEN extracted' = getIntelligentDefaultClauses(paragraphs) /\ upc' = "extracted"
     ELSE extracted' = extracted /\ upc' = "extracting"
  /\ UNCHANGED << paragraphs, extraction, prediction, aiClauses, clauses,
                  goldStandardClauses, apiKey, pc, analysisVars, otherVars >>

\* the extraction model answers or fails, and extractClauses returns
extractorSettles ==
  /\ upc = "extracting"
  /\ \E r \in ExtractionResponses(paragraphs) :
       /\ extraction' = r
       /\ extracted' = afterExtraction(r, paragraphs)
  /\ upc' = "extracted"
  /\ UNCHANGED << paragraphs, prediction, aiClauses, clauses,
                  goldStandardClauses, apiKey, pc, analysisVars, otherVars >>

\* POST /api/upload stores the extracted clauses
createClauses ==
  /\ upc = "extracted"
  /\ clauses' = storedClauses(extracted)
  /\ upc' = "stored"
  /\ UNCHANGED << paragraphs, extraction, extracted, prediction, aiClauses,
                  goldStandardClauses, apiKey, pc, analysisVars, otherVars >>

\* POST /api/analyze/:documentId up to its call of analyzeContract
postAnalyze ==
  /\ upc = "stored"
  /\ pc = "not_requested"
  /\ pc' = IF Len(clauses) = 0 THEN "http_400" ELSE "idle"
  /\ UNCHANGED << clauses, goldStandardClauses, apiKey, analysisVars, uploadVars, otherVars >>

\* the document goes to Document AI instead and its prediction is parsed
documentAIPredicts ==
  /\ upc = "idle"
  /\ \E p \in Predictions(paragraphs) :
       /\ prediction' = p
       /\ aiClauses' = parseDocumentAIPrediction(p)
  /\ upc' = "document_ai_parsed"
  /\ UNCHANGED << paragraphs, extraction, extracted, clauses,
                  goldStandardClauses, apiKey, pc, analysisVars, otherVars >>

UploadNext ==
  \/ extractClauses
  \/ extractorSettles
  \/ createClauses
  \/ postAnalyze
  \/ documentAIPredicts
  \/ analyzeContract
  \/ generatorSettles
  \/ resumeAnalysis

UploadSpec == UploadInit /\ [][UploadNext]_vars

\* ------------------------------------------------------- repeated analysis
\* a document of at most MaxFairClauses clauses, about to be analysed twice
RepeatInit ==
  /\ Init
  /\ Len(clauses) <= MaxFairClauses

\* the caller keeps the result and calls analyzeContract again with the
\* same document, clauses and goldStandardClauses
analyzeAgain ==
  /\ pc = "done"
  /\ ~firstRun.ran
  /\ firstRun' = [ ran |-> TRUE, response |-> response, points |-> negotiationPoints ]
  /\ pc' = "idle"
  /\ allMatchedClauses' = <<>>
  /\ sortedClauses' = <<>>
  /\ matchedClauses' = <<>>
  /\ response' = NoResponse
  /\ negotiationPoints' = <<>>
  /\ UNCHANGED << clauses, goldStandardClauses, apiKey, uploadVars, second, staging, storageVars >>

RepeatNext == analyzeContract \/ generatorSettles \/ resumeAnalysis \/ analyzeAgain

RepeatSpec == RepeatInit /\ [][RepeatNext]_vars

\* ----------------------------------------------------- concurrent analysis
\* the types of the clauses of the two documents analysed at once
ConcurrentTypes == { "limitation_of_liability", "other" }

ConcurrentTypeLists == SeqsUpTo(ConcurrentTypes, MaxFairClauses)

\* the clauses of the second document
secondClauses(ts) ==
  [ i \in 1..Len(ts) |->
      [ Clause(i, ts[i]) EXCEPT !.content = "second document, clause #" \o ToString(i) ] ]

\* two requests for two documents are about to call analyzeContract
ConcurrentInit ==
  /\ clauses \in { ClausesOfTypes(ts) : ts \in ConcurrentTypeLists }
  /\ goldStandardClauses \in GoldStandardChoices
  /\ apiKey \in BOOLEAN
  /\ pc = "idle"
  /\ allMatchedClauses = <<>>
  /\ sortedClauses = <<>>
  /\ matchedClauses = <<>>
  /\ response = NoResponse
  /\ negotiationPoints = <<>>
  /\ paragraphs = <<>>
  /\ upc = "stored"
  /\ extraction = NoExtraction
  /\ extracted = <<>>
  /\ prediction = NoPrediction
  /\ aiClauses = <<>>
  /\ firstRun = NoRun
  /\ staging = NoStaging
  /\ StorageIdle
  /\ second \in { [ NoInvocation EXCEPT !.pc = "idle", !.clauses = secondClauses(ts) ] :
                    ts \in ConcurrentTypeLists }

\* a second call whose list of matched clauses lives in a variable of the
\* module, shared by all calls
secondAnalyzeContract_sharedMatches ==
  /\ second.pc = "idle"
  /\ LET matched == findMatchingClauses(second.clauses, goldStandardClauses)
     IN  /\ matchedClauses' = matched
         /\ second' =
              IF Len(matched) = 0
              THEN [ second EXCEPT !.matchedClauses = matched, !.pc = "done" ]
              ELSE IF ~apiKey
                   THEN [ second EXCEPT !.matchedClauses = matched, !.pc = "done",
                            !.negotiationPoints = getIntelligentFallbackWithMatchedClauses(matched) ]
                   ELSE [ second EXCEPT !.matchedClauses = matched, !.pc = "awaiting" ]
  /\ UNCHANGED << clauses, goldStandardClauses, apiKey, pc, allMatchedClauses, sortedClauses,
                  response, negotiationPoints, uploadVars, firstRun, staging, storageVars >>

\* the second call of analyzeContract, up to the await inside generateAnalysis
secondAnalyzeContract ==
  /\ second.pc = "idle"
  /\ LET matched == findMatchingClauses(second.clauses, goldStandardClauses)
     IN  second' =
           IF Len(matched) = 0
           THEN [ second EXCEPT !.matchedClauses = matched, !.pc = "done" ]
           ELSE IF ~apiKey
                THEN [ second EXCEPT !.matchedClauses = matched, !.pc = "done",
                         !.negotiationPoints = getIntelligentFallbackWithMatchedClauses(matched) ]
                ELSE [ second EXCEPT !.matchedClauses = matched, !.pc = "awaiting" ]
  /\ UNCHANGED << clauses, goldStandardClauses, apiKey, pc, analysisVars, uploadVars, firstRun, staging, storageVars >>

\* the generator settles the second call's request
secondGeneratorSettles ==
  /\ second.pc = "awaiting"
  /\ \E r \in Responses(second.matchedClauses) :
       second' = [ second EXCEPT !.response = r, !.pc = "settled" ]
  /\ UNCHANGED << clauses, goldStandardClauses, apiKey, pc, analysisVars, uploadVars, firstRun, staging, storageVars >>

\* the second call resumes after its await and returns
secondResumeAnalysis ==
  /\ second.pc = "settled"
  /\ second' = [ second EXCEPT
                   !.negotiationPoints = afterResponse(second.response, second.matchedClauses),
                   !.pc = "done" ]
  /\ UNCHANGED << clauses, goldStandardClauses, apiKey, pc, analysisVars, uploadVars, firstRun, staging, storageVars >>

ConcurrentNext ==
  \/ analyzeContract
  \/ generatorSettles
  \/ resumeAnalysis
  \/ secondAnalyzeContract
  \/ secondGeneratorSettles
  \/ secondResumeAnalysis

ConcurrentSpec == ConcurrentInit /\ [][ConcurrentNext]_vars

\* ------------------------------------------------------ the Document AI stage
\* selectTop5Clauses: the stable sort by the priority table of document-ai.ts
\* (the table of ai.ts, entry for entry), one clause inserted
top5Insert(sorted, c) ==
  LET later == { k \in 1..Len(sorted) : priorityOf(sorted[k].type) > priorityOf(c.type) }
  IN  IF later = {}
      THEN Append(sorted, c)
      ELSE LET k == CHOOSE x \in later : \A y \in later : x <= y
           IN  SubSeq(sorted, 1, k - 1) \o << c >> \o SubSeq(sorted, k, Len(sorted))

RECURSIVE top5Sort(_, _)
top5Sort(cls, sorted) ==
  IF cls = <<>> THEN sorted ELSE top5Sort(Tail(cls), top5Insert(sorted, Head(cls)))

selectTop5Clauses(cls) == slice(top5Sort(cls, <<>>), TOP_N)

\* a document is handed to analyzeDocumentWithAI
StageInit ==
  /\ paragraphs \in Documents
  /\ staging = [ NoStaging EXCEPT !.pc = "uploading" ]
  /\ goldStandardClauses = SeededGoldStandards
  /\ apiKey \in BOOLEAN
  /\ upc = "idle"
  /\ extraction = NoExtraction
  /\ extracted = <<>>
  /\ prediction = NoPrediction
  /\ aiClauses = <<>>
  /\ clauses = <<>>
  /\ pc = "not_requested"
  /\ allMatchedClauses = <<>>
  /\ sortedClauses = <<>>
  /\ matchedClauses = <<>>
  /\ response = NoResponse
  /\ negotiationPoints = <<>>
  /\ firstRun = NoRun
  /\ second = NoInvocation
  /\ StorageIdle

stageFrame ==
  UNCHANGED << paragraphs, upc, extraction, extracted, clauses, goldStandardClauses, apiKey,
               pc, analysisVars, firstRun, second, storageVars >>

\* await uploadFileToStage: the PUT succeeds, or the call throws (connection,
\* path validation, or the PUT itself, which may or may not have stored the file)
uploadFileToStage ==
  /\ staging.pc = "uploading"
  /\ \/ staging' = [ staging EXCEPT !.staged = TRUE, !.pc = "predicting" ]
     \/ \E stored \in BOOLEAN :
          staging' = [ staging EXCEPT !.staged = stored, !.failure = "upload", !.pc = "cleanup" ]
  /\ UNCHANGED << prediction, aiClauses >>
  /\ stageFrame

\* the ways predictWithDocumentAI and the parsing of its row can fail
PredictionFailures == { "prediction_rejected", "no_prediction", "unparsable_prediction" }

\* a predict step that leaves the function at once when it throws
predictWithDocumentAI_noFinally ==
  /\ staging.pc = "predicting"
  /\ \/ /\ \E f \in PredictionFailures :
             staging' = [ staging EXCEPT !.failure = f, !.pc = "thrown" ]
        /\ UNCHANGED << prediction, aiClauses >>
     \/ /\ \E p \in Predictions(paragraphs) :
             /\ prediction' = p
             /\ aiClauses' = selectTop5Clauses(parseDocumentAIPrediction(p))
        /\ staging' = [ staging EXCEPT !.pc = "cleanup" ]
  /\ stageFrame

\* await predictWithDocumentAI, the PREDICTION test, JSON.parse,
\* parseDocumentAIPrediction and selectTop5Clauses; every throw enters finally
predictWithDocumentAI ==
  /\ staging.pc = "predicting"
  /\ \/ /\ \E f \in PredictionFailures :
             staging' = [ staging EXCEPT !.failure = f, !.pc = "cleanup" ]
        /\ UNCHANGED << prediction, aiClauses >>
     \/ /\ \E p \in Predictions(paragraphs) :
             /\ prediction' = p
             /\ aiClauses' = selectTop5Clauses(parseDocumentAIPrediction(p))
        /\ staging' = [ staging EXCEPT !.pc = "cleanup" ]
  /\ stageFrame

\* the finally block: await removeFileFromStage, whose error is logged and
\* dropped; then the function returns or rethrows
removeFileFromStage ==
  /\ staging.pc = "cleanup"
  /\ \/ staging' = [ staging EXCEPT !.staged = FALSE, !.removal = "removed",
                       !.pc = IF staging.failure = "none" THEN "returned" ELSE "thrown" ]
     \/ staging' = [ staging EXCEPT !.removal = "failed",
                       !.pc = IF staging.failure = "none" THEN "returned" ELSE "thrown" ]
  /\ UNCHANGED << prediction, aiClauses >>
  /\ stageFrame

StageNext == uploadFileToStage \/ predictWithDocumentAI \/ removeFileFromStage

StageSpec == StageInit /\ [][StageNext]_vars

\* ------------------------------------------------------------ the storage
\* hours on the server's clock, uploads, and stored analyses a behaviour sees
MaxClock == 48
MaxDocuments == 2
MaxAnalyses == 2
MaxCleanups == 2

\* hours that pass between two looks at the clock
HoursPerStep == 12

\* expirationDate.setHours(expirationDate.getHours() + 24)
EXPIRY_HOURS == 24

\* how many clauses the extraction of an upload yields
ExtractedCounts == 0..1

\* the ids a request may name
RequestedIds == 1..MaxDocuments

\* the negotiation points analyzeContract may return for a document
AnalysisOutcomes == { "generated points", "fallback points" }

\* nothing is uploaded, stored or requested yet, and no call is under way
StorageInit ==
  /\ db = EmptyDatabase
  /\ http = NoRequest
  /\ client = NoClient
  /\ paragraphs = <<>>
  /\ goldStandardClauses = SeededGoldStandards
  /\ apiKey = FALSE
  /\ upc = "idle"
  /\ extraction = NoExtraction
  /\ extracted = <<>>
  /\ prediction = NoPrediction
  /\ aiClauses = <<>>
  /\ clauses = <<>>
  /\ pc = "not_requested"
  /\ allMatchedClauses = <<>>
  /\ sortedClauses = <<>>
  /\ matchedClauses = <<>>
  /\ response = NoResponse
  /\ negotiationPoints = <<>>
  /\ firstRun = NoRun
  /\ second = NoInvocation
  /\ staging = NoStaging

storageFrame ==
  UNCHANGED << clauses, goldStandardClauses, apiKey, pc, analysisVars, uploadVars,
               firstRun, second, staging, client >>

\* SnowflakeStorage.createDocument: the row gets the next value of
\* seq_documents, the current time and the expiry the caller passed
createDocument(d, expiresAt) ==
  [ d EXCEPT !.documents = @ \cup { [ id |-> d.nextDocumentId, uploadedAt |-> d.now,
                                      expiresAt |-> expiresAt ] },
             !.nextDocumentId = @ + 1 ]

\* SnowflakeStorage.createClause, once per extracted clause
createClause(d, documentId, position) ==
  [ d EXCEPT !.clauses = @ \cup { [ documentId |-> documentId, position |-> position ] } ]

RECURSIVE createClausesFrom(_, _, _, _)
createClausesFrom(d, documentId, i, n) ==
  IF i >= n THEN d ELSE createClausesFrom(createClause(d, documentId, i), documentId, i + 1, n)

\* SnowflakeStorage.getDocument: the row, or the Error it throws without one
getDocument(d, id) ==
  IF \E x \in d.documents : x.id = id
  THEN [ threw |-> FALSE, document |-> CHOOSE x \in d.documents : x.id = id ]
  ELSE [ threw |-> TRUE, message |-> "Document with id not found" ]

getClausesByDocumentId(d, documentId) == { c \in d.clauses : c.documentId = documentId }

\* SnowflakeStorage.createAnalysisResult: a new row per analysis
createAnalysisResult(d, documentId, points) ==
  [ d EXCEPT !.analysisResults =
      Append(@, [ id |-> Len(@) + 1, documentId |-> documentId, negotiationPoints |-> points ]) ]

\* the rows WHERE document_id = ? selects; LIMIT 1 without ORDER BY hands
\* back any one of them
analysisRowsOf(d, documentId) ==
  { i \in 1..Len(d.analysisResults) : d.analysisResults[i].documentId = documentId }

\* DELETE FROM documents WHERE expires_at <= CURRENT_TIMESTAMP()
deleteExpiredDocuments_inclusive(d) ==
  [ d EXCEPT !.documents = { x \in @ : ~(x.expiresAt <= d.now) } ]

\* SnowflakeStorage.deleteExpiredDocuments:
\* DELETE FROM documents WHERE expires_at < CURRENT_TIMESTAMP()
deleteExpiredDocuments(d) ==
  [ d EXCEPT !.documents = { x \in @ : ~(x.expiresAt < d.now) } ]

\* POST /api/upload: the document is created with its expiry and the
\* extracted clauses are stored
uploadRoute ==
  /\ db.nextDocumentId <= MaxDocuments
  /\ \E n \in ExtractedCounts :
       LET expirationDate == db.now + EXPIRY_HOURS
           created == createDocument(db, expirationDate)
       IN  /\ db' = createClausesFrom(created, db.nextDocumentId, 0, n)
           /\ http' = [ route |-> "POST /api/upload", documentId |-> db.nextDocumentId,
                        found |-> TRUE, status |-> 200, body |-> "documentId" ]
  /\ storageFrame

\* POST /api/analyze/:documentId, from the lookup to the response
analyzeRoute ==
  /\ \E documentId \in RequestedIds :
       LET document == getDocument(db, documentId)
           answer(status, body) == [ route |-> "POST /api/analyze", documentId |-> documentId,
                                     found |-> ~document.threw,
                                     status |-> status, body |-> body ]
       IN  IF document.threw
           THEN /\ http' = answer(500, document.message)
                /\ db' = db
           ELSE IF getClausesByDocumentId(db, documentId) = {}
           THEN /\ http' = answer(400, "No clauses found for analysis")
                /\ db' = db
           ELSE /\ Len(db.analysisResults) < MaxAnalyses
                /\ \E points \in AnalysisOutcomes :
                     /\ db' = createAnalysisResult(db, documentId, points)
                     /\ http' = answer(200, points)
  /\ storageFrame

\* GET /api/analysis/:documentId
analysisRoute ==
  /\ \E documentId \in RequestedIds :
       LET rows == analysisRowsOf(db, documentId)
           answer(status, body) == [ route |-> "GET /api/analysis", documentId |-> documentId,
                                     found |-> rows # {},
                                     status |-> status, body |-> body ]
       IN  IF rows = {}
           THEN http' = answer(500, "Analysis result for document not found")
           ELSE \E i \in rows : http' = answer(200, db.analysisResults[i].negotiationPoints)
  /\ db' = db
  /\ storageFrame

\* the callback setupCleanup schedules with setInterval
cleanupInterval ==
  /\ db.cleanups < MaxCleanups
  /\ db' = [ deleteExpiredDocuments(db) EXCEPT !.cleanups = @ + 1 ]
  /\ http' = http
  /\ storageFrame

\* time passes on the server
passTime ==
  /\ db.now + HoursPerStep <= MaxClock
  /\ db' = [ db EXCEPT !.now = @ + HoursPerStep ]
  /\ http' = http
  /\ storageFrame

StorageNext ==
  \/ uploadRoute
  \/ analyzeRoute
  \/ analysisRoute
  \/ cleanupInterval
  \/ passTime

StorageSpec == StorageInit /\ [][StorageNext]_vars

\* ------------------------------------------------------- the upload page
statusMessages ==
  << "Extracting text from document...",
     "Identifying contract clauses...",
     "Comparing to gold-standard terms...",
     "Generating recommendations...",
     "Preparing your report..." >>

\* Math.floor(Math.random() * 15) + 5
ProgressIncrements == 5..19

\* the value the simulated progress stops at
PROGRESS_TARGET == 95

clientFrame ==
  UNCHANGED << clauses, goldStandardClauses, apiKey, pc, analysisVars, uploadVars,
               firstRun, second, staging, db, http >>

\* startAnalysis up to its await: both intervals are started and the
\* analyze request is sent
startAnalysis ==
  /\ client.pc = "none"
  /\ client' = [ client EXCEPT !.isAnalyzing = TRUE, !.analysisProgress = 10,
                                !.messageIndex = 0, !.statusInterval = TRUE,
                                !.progressInterval = TRUE, !.pc = "awaiting" ]
  /\ clientFrame

\* the callback of statusInterval, every 1500 ms while the interval runs
statusTick ==
  /\ client.statusInterval
  /\ LET next == (client.messageIndex + 1) % Len(statusMessages)
     IN  client' = [ client EXCEPT !.messageIndex = next,
                                   !.analysisStatus = statusMessages[next + 1] ]
  /\ clientFrame

\* the callback of the progress interval, every 1000 ms while it runs
progressTick ==
  /\ client.progressInterval
  /\ \E increment \in ProgressIncrements :
       LET newProgress == client.analysisProgress + increment
       IN  client' = [ client EXCEPT !.analysisProgress =
                         IF newProgress < PROGRESS_TARGET THEN newProgress
                         ELSE PROGRESS_TARGET ]
  /\ clientFrame

\* the analyze request settles: startAnalysis resumes after the await, or
\* in its catch block
analyzeRequestSettles ==
  /\ client.pc = "awaiting"
  /\ \/ client' = [ client EXCEPT !.statusInterval = FALSE, !.progressInterval = FALSE,
                                   !.analysisProgress = 100,
                                   !.analysisStatus = "Analysis complete!",
                                   !.pc = "succeeded" ]
     \/ client' = [ client EXCEPT !.isAnalyzing = FALSE, !.pc = "failed" ]
  /\ clientFrame

\* the setTimeout callback 500 ms after a successful analysis
navigateToAnalysis ==
  /\ client.pc = "succeeded"
  /\ client' = [ client EXCEPT !.isAnalyzing = FALSE, !.pc = "navigated" ]
  /\ clientFrame

ClientNext ==
  \/ startAnalysis
  \/ statusTick
  \/ progressTick
  \/ analyzeRequestSettles
  \/ navigateToAnalysis

ClientSpec == StorageInit /\ [][ClientNext]_vars

\* ------------------------------------------------------------ claim helpers
Min(a, b) == IF a < b THEN a ELSE b

\* the fixed priority table the claims state, highest priority first
PriorityTable ==
  << "limitation_of_liability", "indemnification", "intellectual_property",
     "termination", "payment_terms", "confidentiality", "warranty",
     "governing_law", "assignment", "other" >>

\* the priority value the table gives a type; a type outside the table ranks
\* with other
TablePriority(type) ==
  IF \E k \in 1..Len(PriorityTable) : PriorityTable[k] = type
  THEN CHOOSE k \in 1..Len(PriorityTable) : PriorityTable[k] = type
  ELSE Len(PriorityTable)

TypesOf(pairs) == [ i \in 1..Len(pairs) |-> pairs[i].userClause.type ]

Ranked == pc \in { "awaiting", "settled", "done" }

OneOfEachDocument ==
  /\ Len(clauses) = Cardinality(ClauseTypeSchema)
  /\ { clauses[i].type : i \in 1..Len(clauses) } = ClauseTypeSchema

\* C1: the ranked pairs are in non-decreasing priority order under the fixed
\* table, and for a document with one clause of each taxonomy type the sorted
\* pairs follow the table exactly, the returned ones being its first five.
Thm_C1_PriorityOrder ==
  Ranked =>
    /\ \A i \in 1..(Len(matchedClauses) - 1) :
         TablePriority(matchedClauses[i].userClause.type)
           <= TablePriority(matchedClauses[i + 1].userClause.type)
    /\ \A i \in 1..(Len(sortedClauses) - 1) :
         TablePriority(sortedClauses[i].userClause.type)
           <= TablePriority(sortedClauses[i + 1].userClause.type)
    /\ (OneOfEachDocument /\ goldStandardClauses # <<>>) =>
         /\ TypesOf(sortedClauses) = PriorityTable
         /\ TypesOf(matchedClauses) = SubSeq(PriorityTable, 1, 5)

Witness_C1 ==
  /\ pc = "done"
  /\ OneOfEachDocument
  /\ clauses[1].type = "other"
  /\ clauses[Len(clauses)].type = "limitation_of_liability"
  /\ Len(matchedClauses) = 5
  /\ matchedClauses[1].userClause.type = "limitation_of_liability"

\* C2: two ranked pairs of equal priority keep the relative order their
\* clauses had in the input.
Thm_C2_Stable ==
  Ranked =>
    /\ \A i, j \in 1..Len(sortedClauses) :
         (i < j /\ TablePriority(sortedClauses[i].userClause.type)
                     = TablePriority(sortedClauses[j].userClause.type))
           => sortedClauses[i].userClause.position < sortedClauses[j].userClause.position
    /\ \A i, j \in 1..Len(matchedClauses) :
         (i < j /\ TablePriority(matchedClauses[i].userClause.type)
                     = TablePriority(matchedClauses[j].userClause.type))
           => matchedClauses[i].userClause.position < matchedClauses[j].userClause.position

Witness_C2 ==
  /\ pc = "done"
  /\ \E i, j \in 1..Len(matchedClauses) :
       /\ i < j
       /\ matchedClauses[i].userClause.type = matchedClauses[j].userClause.type
       /\ matchedClauses[i].userClause.position < matchedClauses[j].userClause.position
       /\ \E k \in 1..Len(matchedClauses) :
            k < i /\ matchedClauses[k].userClause.position > matchedClauses[j].userClause.position

\* C3 as amended: the ranker returns exactly min(number of pairs, 5) entries;
\* the cap is the constant 5 and no caller-supplied limit changes it.
Thm_C3_CapFive ==
  Ranked =>
    /\ Len(matchedClauses) = Min(Len(allMatchedClauses), 5)
    /\ Len(matchedClauses) <= 5

Witness_C3 ==
  /\ pc = "done"
  /\ Len(allMatchedClauses) > 5
  /\ Len(matchedClauses) = 5

\* C3 as stated: whatever limit N a caller asks for, raising it above 5
\* included, the ranker returns min(number of pairs, N) entries.
Orig_C3_AnyLimit ==
  Ranked => \A N \in 5..10 : Len(matchedClauses) = Min(Len(allMatchedClauses), N)

Included == { matchedClauses[i] : i \in 1..Len(matchedClauses) }

Excluded == { allMatchedClauses[i] : i \in 1..Len(allMatchedClauses) } \ Included

SevenClauseDocument ==
  /\ Len(clauses) = 7
  /\ Cardinality({ i \in 1..7 : clauses[i].type = "limitation_of_liability" }) = 2
  /\ Cardinality({ i \in 1..7 : clauses[i].type = "termination" }) = 1
  /\ Cardinality({ i \in 1..7 : clauses[i].type = "indemnification" }) = 1
  /\ Cardinality({ i \in 1..7 : clauses[i].type = "other" }) = 3

FirstOfType(type) ==
  CHOOSE i \in 1..Len(clauses) :
    clauses[i].type = type /\ \A j \in 1..Len(clauses) : clauses[j].type = type => i <= j

\* C4: the kept pairs are the head of the priority order: every kept pair is
\* a matched pair, no dropped pair outranks a kept one, and of two pairs of the
\* same type the later is kept only if the earlier is. The seven-clause
\* document yields limitation_of_liability twice, indemnification,
\* termination and the first other clause.
Thm_C4_KeptAreTop ==
  Ranked =>
    /\ Included \subseteq { allMatchedClauses[i] : i \in 1..Len(allMatchedClauses) }
    /\ \A x \in Excluded : \A k \in Included :
         TablePriority(x.userClause.type) >= TablePriority(k.userClause.type)
    /\ \A x \in Excluded : \A k \in Included :
         x.userClause.type = k.userClause.type
           => k.userClause.position < x.userClause.position
    /\ (SevenClauseDocument /\ goldStandardClauses # <<>>) =>
         /\ TypesOf(matchedClauses) =
              << "limitation_of_liability", "limitation_of_liability",
                 "indemnification", "termination", "other" >>
         /\ matchedClauses[1].userClause.position < matchedClauses[2].userClause.position
         /\ matchedClauses[5].userClause = clauses[FirstOfType("other")]

Witness_C4 ==
  /\ pc = "done"
  /\ SevenClauseDocument
  /\ clauses[1].type = "other"
  /\ clauses[2].type = "other"
  /\ clauses[7].type = "limitation_of_liability"
  /\ Len(matchedClauses) = 5
  /\ Cardinality(Excluded) = 2

\* a Recommendation with a non-empty explanation and suggestion and a valid
\* riskLevel
WellFormed(point) ==
  /\ point.suggestion # ""
  /\ point.explanation # ""
  /\ point.riskLevel \in { "high", "medium", "low" }

\* the array holds exactly one well-formed entry per requested pair
ValidPoints(points, matched) ==
  /\ Len(points) = Len(matched)
  /\ \A i \in 1..Len(points) : WellFormed(points[i])

\* every clause has a reference of its own type
ReferenceCovered ==
  \A i \in 1..Len(clauses) :
    \E k \in 1..Len(goldStandardClauses) : goldStandardClauses[k].type = clauses[i].type

\* C5 as stated: for a non-empty, reference-covered input analyze() returns
\* min(number of ranked pairs, 5) recommendations in rank order, so as many as
\* there are clauses when there are at most 5.
Orig_C5_OutputLength ==
  (pc = "done" /\ clauses # <<>> /\ ReferenceCovered) =>
    /\ Len(negotiationPoints) = Min(Len(sortedClauses), 5)
    /\ Len(clauses) <= 5 => Len(negotiationPoints) = Len(clauses)
    /\ \A i \in 1..Min(Len(negotiationPoints), Len(matchedClauses)) :
         negotiationPoints[i].originalClause = matchedClauses[i].userClause.content

\* C6 as stated: recommend() returns one Recommendation per pair, the i-th
\* about the clause of the i-th pair, on the generator path and on the
\* fallback path alike.
Orig_C6_OnePerPairInOrder ==
  pc = "done" =>
    /\ Len(negotiationPoints) = Len(matchedClauses)
    /\ \A i \in 1..Len(matchedClauses) :
         negotiationPoints[i].originalClause = matchedClauses[i].userClause.content

\* C7 as stated: a generator response that does not hold exactly one
\* well-shaped entry per requested pair is discarded and the per-pair fallback
\* is returned in its place.
Orig_C7_ResponseValidated ==
  (pc = "done" /\ response.kind = "json_points"
     /\ ~ValidPoints(response.points, matchedClauses)) =>
    /\ negotiationPoints # response.points
    /\ negotiationPoints = getIntelligentFallbackWithMatchedClauses(matchedClauses)

\* the generator call failed outright or gave nothing to parse
GeneratorFailed ==
  \/ ~apiKey
  \/ response.kind \in { "rejected", "empty_content", "unparsable" }

\* C8: when the generator fails, recommend() returns exactly one
\* Recommendation per pair, each with a non-empty suggestion, a non-empty
\* explanation and a riskLevel among high, medium, low.
Thm_C8_FallbackComplete ==
  (pc = "done" /\ GeneratorFailed) =>
    /\ Len(negotiationPoints) = Len(matchedClauses)
    /\ \A i \in 1..Len(negotiationPoints) : WellFormed(negotiationPoints[i])

Witness_C8 ==
  /\ pc = "done"
  /\ apiKey
  /\ response.kind = "rejected"
  /\ Len(matchedClauses) = 5
  /\ matchedClauses[1].userClause.type = "limitation_of_liability"
  /\ matchedClauses[5].userClause.type \in { "other", NULL, "force_majeure" }
  /\ Len(negotiationPoints) = 5

\* the call was rejected, timed out, or answered with something that is not
\* one well-shaped entry per pair
GenerationFailure ==
  \/ response.kind \in { "rejected", "empty_content", "unparsable", "json_without_points" }
  \/ response.kind = "json_points" /\ ~ValidPoints(response.points, matchedClauses)

\* C9 as stated: after any generation failure, a malformed response
\* included, analyze() has returned a well-formed Recommendation for every
\* pair handed to the engine.
Orig_C9_FailureRecovered ==
  (pc = "done" /\ GenerationFailure) =>
    ValidPoints(negotiationPoints, matchedClauses)

\* C10 as stated: once the generator call is issued, analyze() terminates
\* with a result even when the generator never answers.
Orig_C10_CallTimesOut == (pc = "awaiting") ~> (pc = "done")

\* ------------------------------------------------------------- the matcher
\* the least index in a non-empty set of indices
First(S) == CHOOSE k \in S : \A j \in S : k <= j

ReferencesOfType(type) ==
  { k \in 1..Len(goldStandardClauses) : goldStandardClauses[k].type = type }

\* C11: each pair holds the first reference of the clause's type with
\* confidence 0.8 when there is one; otherwise the first reference of type
\* other when there is one, else the first reference of the set, with
\* confidence 0.5.
Thm_C11_MatchSelection ==
  Ranked =>
    \A i \in 1..Len(allMatchedClauses) :
      LET p == allMatchedClauses[i]
          same == ReferencesOfType(p.userClause.type)
          others == ReferencesOfType("other")
      IN  IF same # {}
          THEN p.goldStandard = goldStandardClauses[First(same)] /\ p.similarity = 8
          ELSE IF others # {}
               THEN p.goldStandard = goldStandardClauses[First(others)] /\ p.similarity = 5
               ELSE p.goldStandard = goldStandardClauses[1] /\ p.similarity = 5

Witness_C11 ==
  /\ pc = "done"
  /\ Cardinality(ReferencesOfType("limitation_of_liability")) = 2
  /\ \E i, j \in 1..Len(allMatchedClauses) :
       /\ allMatchedClauses[i].userClause.type = "limitation_of_liability"
       /\ allMatchedClauses[i].goldStandard.id = 1
       /\ allMatchedClauses[i].similarity = 8
       /\ allMatchedClauses[j].userClause.type = "force_majeure"
       /\ allMatchedClauses[j].goldStandard.type = "other"
       /\ allMatchedClauses[j].similarity = 5

\* C12: no clause is paired twice, every pair carries a reference of the
\* reference set, and with a non-empty reference set every clause is paired,
\* in input order, so as many pairs enter the sort as there are clauses.
Thm_C12_NoClauseDropped ==
  Ranked =>
    /\ \A i, j \in 1..Len(allMatchedClauses) :
         allMatchedClauses[i].userClause.id = allMatchedClauses[j].userClause.id => i = j
    /\ \A i \in 1..Len(allMatchedClauses) :
         \E k \in 1..Len(goldStandardClauses) :
           allMatchedClauses[i].goldStandard = goldStandardClauses[k]
    /\ goldStandardClauses # <<>> =>
         /\ Len(allMatchedClauses) = Len(clauses)
         /\ \A i \in 1..Len(clauses) : allMatchedClauses[i].userClause = clauses[i]

Witness_C12 ==
  /\ pc = "done"
  /\ goldStandardClauses = SeededGoldStandards
  /\ Len(clauses) = 7
  /\ Len(allMatchedClauses) = 7
  /\ \E i \in 1..7 :
       /\ clauses[i].type = "other"
       /\ allMatchedClauses[i].goldStandard = goldStandardClauses[1]

\* C13: with an empty reference set and a non-empty clause list the matcher
\* emits no pair and analyze() completes with an empty list.
Thm_C13_EmptyReferences ==
  (Ranked /\ goldStandardClauses = <<>> /\ clauses # <<>>) =>
    /\ allMatchedClauses = <<>>
    /\ matchedClauses = <<>>
    /\ pc = "done"
    /\ negotiationPoints = <<>>

Witness_C13 ==
  /\ pc = "done"
  /\ goldStandardClauses = <<>>
  /\ apiKey
  /\ Len(clauses) = 7
  /\ negotiationPoints = <<>>

\* C14: with an empty clause list analyze() completes with an empty list
\* and the generator is never called.
Thm_C14_EmptyClauses ==
  clauses = <<>> =>
    /\ pc \in { "idle", "done" }
    /\ response = NoResponse
    /\ negotiationPoints = <<>>

Witness_C14 ==
  /\ pc = "done"
  /\ clauses = <<>>
  /\ apiKey
  /\ goldStandardClauses = SeededGoldStandards
  /\ negotiationPoints = <<>>

\* ---------------------------------------------------------- classification
\* C15: the pipeline classifies, then matches, ranks and recommends, so every
\* clause that reaches the matcher has one of the ten taxonomy types; a clause
\* extracted without a type is classified before it is matched.
Orig_C15_ResolvedTypes ==
  Ranked =>
    \A i \in 1..Len(allMatchedClauses) :
      allMatchedClauses[i].userClause.type \in ClauseTypeSchema

\* the extraction returned what the model listed, not the keyword classifier's clauses
ExtractorTyped == extraction.kind = "json_clauses"

\* C16: a clause that an upstream extractor has typed keeps that type; the
\* classifier never replaces an existing type.
Orig_C16_PreTypedKept ==
  /\ (upc = "document_ai_parsed" /\ prediction.clauses # <<>>) =>
       \A i \in 1..Len(prediction.clauses) :
         prediction.clauses[i].type # NULL =>
           aiClauses[i].type = prediction.clauses[i].type
  /\ (upc = "stored" /\ ExtractorTyped) =>
       \A i \in 1..Len(extracted) :
         extracted[i].type # NULL => clauses[i].type = extracted[i].type

\* the rules of classify(text) as stated, in their order
StatedRules ==
  << [ keywords |-> { "liability", "damages", "limit" }, type |-> "limitation_of_liability" ],
     [ keywords |-> { "terminat" }, type |-> "termination" ],
     [ keywords |-> { "intellectual property", "copyright", "patent", "trademark" },
       type |-> "intellectual_property" ],
     [ keywords |-> { "indemnif" }, type |-> "indemnification" ],
     [ keywords |-> { "payment", "invoice", "fee" }, type |-> "payment_terms" ],
     [ keywords |-> { "confidential" }, type |-> "confidentiality" ],
     [ keywords |-> { "governing law", "jurisdiction" }, type |-> "governing_law" ],
     [ keywords |-> { "warrant" }, type |-> "warranty" ],
     [ keywords |-> { "assign" }, type |-> "assignment" ] >>

\* the type of the first stated rule with a keyword in the text, else other
StatedType(text) ==
  LET lower == toLowerCase(text)
      hits == { k \in 1..Len(StatedRules) :
                  \E w \in StatedRules[k].keywords : includes(lower, w) }
  IN  IF hits = {} THEN "other" ELSE StatedRules[First(hits)].type

\* C17: the classifier returns the type of the first stated rule whose
\* keyword occurs case-insensitively in the text, and other when none does.
Orig_C17_ClassifyRules ==
  /\ (upc \in { "extracted", "stored" } /\ ~ExtractorTyped) =>
       \A i \in 1..Len(extracted) : extracted[i].type = StatedType(extracted[i].content)
  /\ (upc = "document_ai_parsed" /\ prediction.clauses = <<>>) =>
       \A i \in 1..Len(aiClauses) : aiClauses[i].type = StatedType(aiClauses[i].content)

\* ------------------------------------------------------- recommendation text
\* C18: every returned recommendation carries, as originalClause, the content
\* of a clause of the analysed document, whether the generator or the
\* fallback produced it.
Orig_C18_VerbatimOriginal ==
  pc = "done" =>
    \A i \in 1..Len(negotiationPoints) :
      \E k \in 1..Len(matchedClauses) :
        negotiationPoints[i].originalClause = matchedClauses[k].userClause.content

\* the fallback produced the returned recommendations
FallbackPath == pc = "done" /\ GeneratorFailed

\* every reference clause a clause can be paired with
ReferenceRecords ==
  { ExtendedGoldStandards[k] : k \in 1..Len(ExtendedGoldStandards) }

TemplateFields(point) ==
  << point.title, point.explanation, point.riskLevel, point.suggestion >>

\* C19: on the fallback path title, explanation, riskLevel and suggestion
\* come from a template chosen by the clause's type alone, whatever reference
\* the clause is paired with, and a type without a dedicated template gets
\* riskLevel medium.
Orig_C19_TemplateByType ==
  FallbackPath =>
    \A i \in 1..Len(negotiationPoints) :
      LET userClause == matchedClauses[i].userClause
      IN  /\ \A g \in ReferenceRecords :
               TemplateFields(negotiationPoints[i]) =
                 TemplateFields(fallbackPoint([ userClause |-> userClause,
                                                goldStandard |-> g,
                                                similarity |-> 5 ])[1])
          /\ userClause.type \notin ClauseTypeSchema =>
               negotiationPoints[i].riskLevel = "medium"

\* C20: when the generator fails for the whole request, two clauses of the
\* same type get the same title, explanation, suggestion and riskLevel, also
\* when they are analysed against different reference sets.
Orig_C20_TypeOnly ==
  FallbackPath =>
    \A golds \in GoldStandardChoices \ { <<>> } :
      LET otherMatched == findMatchingClauses(clauses, golds)
          otherPoints == getIntelligentFallbackWithMatchedClauses(otherMatched)
      IN  \A i \in 1..Len(negotiationPoints), j \in 1..Len(otherPoints) :
            matchedClauses[i].userClause.type = otherMatched[j].userClause.type =>
              TemplateFields(negotiationPoints[i]) = TemplateFields(otherPoints[j])

\* ------------------------------------------------- idempotence and isolation
\* the generator gave the second call the answer it gave the first
SameAnswer == firstRun.ran /\ response = firstRun.response

ResultAlone(cls, answer) ==
  LET matched == findMatchingClauses(cls, goldStandardClauses)
  IN  IF Len(matched) = 0
      THEN <<>>
      ELSE IF ~apiKey
           THEN getIntelligentFallbackWithMatchedClauses(matched)
           ELSE afterResponse(answer, matched)

\* C22: under every interleaving of two analyze() calls for different
\* documents each call returns what it would return alone, and no step
\* changes the reference set or either call's clauses.
Thm_C22_Isolation ==
  /\ [](pc = "done" => negotiationPoints = ResultAlone(clauses, response))
  /\ [](second.pc = "done" =>
          second.negotiationPoints = ResultAlone(second.clauses, second.response))
  /\ [][ /\ goldStandardClauses' = goldStandardClauses
         /\ clauses' = clauses
         /\ second.clauses' = second.clauses ]_vars

Witness_C22 ==
  /\ pc = "done"
  /\ response.kind = "rejected"
  /\ Len(negotiationPoints) = 2
  /\ second.pc = "settled"
  /\ Len(second.matchedClauses) = 2
  /\ second.clauses[1].type # clauses[1].type

\* ------------------------------------------------------------ data lifecycle
\* analyzeDocumentWithAI has returned or thrown
StagingOver == staging.pc \in { "returned", "thrown" }

UploadedIds == 1..(db.nextDocumentId - 1)

StoredIds == { x.id : x \in db.documents }

SplitterRan == ~apiKey /\ upc \in { "extracted", "stored" }

\* the non-empty paragraphs of the uploaded text, trimmed
TrimmedParagraphs ==
  LET kept == SelectSeq(paragraphs, nonBlank)
  IN  [ i \in 1..Len(kept) |-> trim(kept[i]) ]

\* clause c is one paragraph of fewer than 50 characters and nothing else
ShortAlone(c) ==
  \E k \in 1..Len(TrimmedParagraphs) :
    Len(TrimmedParagraphs[k]) < 50 /\ extracted[c].content = TrimmedParagraphs[k]

\* C25 as stated: when the document has another paragraph, no paragraph of
\* fewer than 50 characters is emitted as a clause on its own.
Orig_C25_ShortMerged ==
  SplitterRan /\ Len(TrimmedParagraphs) > 1 =>
    \A c \in 1..Len(extracted) : ~ShortAlone(c)

\* C25: the splitter merges a paragraph of fewer than 50 characters with
\* the paragraph that follows it; only the last paragraph of the document
\* can be emitted as a short clause on its own, as the last clause, when
\* nothing short precedes it directly.
Thm_C25_ShortMergedWithNext ==
  SplitterRan =>
    \A c \in 1..Len(extracted) :
      ShortAlone(c) =>
        LET n == Len(TrimmedParagraphs)
        IN  /\ c = Len(extracted)
            /\ extracted[c].content = TrimmedParagraphs[n]
            /\ n > 1 => Len(TrimmedParagraphs[n - 1]) >= 50

\* a short paragraph followed by a long one came out as a single clause
Witness_C25 ==
  /\ SplitterRan
  /\ Len(TrimmedParagraphs) = 2
  /\ Len(TrimmedParagraphs[1]) < 50
  /\ Len(TrimmedParagraphs[2]) >= 50
  /\ Len(extracted) = 1
  /\ extracted[1].content = TrimmedParagraphs[1] \o "\n\n" \o TrimmedParagraphs[2]

\* the strings of a sequence joined in order with blank lines
RECURSIVE joinWithBlankLines(_)
joinWithBlankLines(ss) ==
  IF ss = <<>> THEN ""
  ELSE IF Len(ss) = 1 THEN ss[1]
  ELSE ss[1] \o "\n\n" \o joinWithBlankLines(Tail(ss))

ContentsOf(cls) == [ i \in 1..Len(cls) |-> cls[i].content ]

\* C30: the splitter neither loses, duplicates nor reorders text: the
\* contents of the emitted clauses, joined in order with blank lines, are
\* the non-empty trimmed paragraphs of the document joined in order with
\* blank lines.
Thm_C30_TextPreserved ==
  SplitterRan =>
    joinWithBlankLines(ContentsOf(extracted)) = joinWithBlankLines(TrimmedParagraphs)

\* two short paragraphs, one of them padded with blanks in the document,
\* came out merged into the one remaining clause
Witness_C30 ==
  /\ SplitterRan
  /\ Len(paragraphs) = 2
  /\ Len(TrimmedParagraphs) = 2
  /\ \A k \in 1..2 : Len(TrimmedParagraphs[k]) < 50
  /\ Len(extracted) = 1
  /\ extracted[1].content = TrimmedParagraphs[1] \o "\n\n" \o TrimmedParagraphs[2]

\* the row the latest successful analysis of a document stored
LatestAnalysisRow(documentId) ==
  CHOOSE i \in analysisRowsOf(db, documentId) :
    \A j \in analysisRowsOf(db, documentId) : j <= i

\* C26 as stated: once a document has been analysed more than once, GET
\* /api/analysis/:documentId answers with the negotiation points of the most
\* recent analysis.
Orig_C26_LatestReturned ==
  /\ http.route = "GET /api/analysis"
  /\ http.status = 200
  /\ Cardinality(analysisRowsOf(db, http.documentId)) > 1
  => http.body = db.analysisResults[LatestAnalysisRow(http.documentId)].negotiationPoints

\* C27 as stated: a request that names a document without a record, or a
\* document without an analysis result, is answered with 404 and never
\* with 500.
Orig_C27_MissingIs404 ==
  http.route \in { "POST /api/analyze", "GET /api/analysis" } /\ ~http.found
    => http.status = 404 /\ http.status # 500

\* the clauses and analysis results whose document is not stored
OrphanedClauses == { c \in db.clauses : c.documentId \notin StoredIds }

OrphanedAnalysisResults ==
  { i \in 1..Len(db.analysisResults) : db.analysisResults[i].documentId \notin StoredIds }

\* C28 as stated: once deleteExpiredDocuments has run, no stored clause and
\* no stored analysis result refers to a document that is not stored.
Orig_C28_NoOrphans ==
  db.cleanups > 0 => OrphanedClauses = {} /\ OrphanedAnalysisResults = {}

\* startAnalysis has completed: the analyze request settled and the
\* function ran to its end or through its catch block
AnalysisOver == client.pc \in { "succeeded", "navigated", "failed" }

\* C29 as stated: once the analyze request has finished, with success or
\* with failure, neither the status interval nor the progress interval
\* that startAnalysis started is still running.
Orig_C29_TimersCleared ==
  AnalysisOver => ~client.statusInterval /\ ~client.progressInterval

====
